---- MODULE Spec2Model ----
(***************************************************************************)
(* Model of birdclef/workflows/motif.py: write(), which computes the motif *)
(* pair of one recording and persists metadata.json, mp.npy and pi.npy,    *)
(* and the fan-out of extract(), which runs write over a task list on a    *)
(* process pool.                                                           *)
(*                                                                         *)
(* Durations are in tenths of a second.  A file on disk is absent, partial *)
(* (opened and truncated, content not yet flushed) or complete.  None is   *)
(* written Null; array indices are 0-based as in the source, sequences     *)
(* holding them are 1-based.                                               *)
(***************************************************************************)
EXTENDS Integers, Sequences, FiniteSets, TLC

VARIABLES
    tree,       \* the .ogg files under the source root (extract's glob)
    tasks,      \* the recordings write is called on
    cens_sr,    \* write's cens_sr argument
    mp_window,  \* write's mp_window argument
    prof,       \* per task: what simple_fast yields on its features
    outKind,    \* per destination sub-directory: "absent", "dir" or "file"
    disk,       \* per recording output directory: existence and files
    pc,         \* per task: position in write
    step,       \* per task: index of the next output file to write
    nload,      \* per task: number of times the audio was read
    nloc,       \* per task: number of simple_fast invocations
    runs,       \* per task: number of invocations of write
    first,      \* per task: <<>> or <<directory content at first completion>>
    faulty,     \* tasks whose write raised or was killed
    batch       \* extract: "none", "init", "running", "returned", "raised"

vars == <<tree, tasks, cens_sr, mp_window, prof, outKind, disk, pc, step,
          nload, nloc, runs, first, faulty, batch>>

----------------------------------------------------------------------------
(* Bounds of the model *)

MaxRuns == 3
MaxMpVal == 1
MaxFiles == 2

(* Program constants *)

Null == -1
SampleRate == 22050
MinDuration == 50
DefaultCensSr == 10
DefaultWindow == 50
PoolSize == 12

\* the files opened for appending
AppendMode == "a"
\* write_text and np.save open their file for writing
WriteMode == "w"

ShortOutputs == <<"metadata.json">>
\* the arrays saved before the metadata
ArraysFirst == <<"mp.npy", "pi.npy", "metadata.json">>
LongOutputs == <<"metadata.json", "mp.npy", "pi.npy">>
RequiredFiles == {"metadata.json", "mp.npy", "pi.npy"}
OutputNames == {"metadata.json", "mp.npy", "pi.npy"}

Ogg == <<".", "o", "g", "g">>
NameA == <<"a">> \o Ogg
NameAA == <<"a">> \o Ogg \o Ogg
NameB == <<"b">> \o Ogg

(* Inputs *)

Durations == {49, 50, 51}
CensSrs == {1, 10}
Windows == {0, 50, 51, 52}
OutKinds == {"absent", "dir", "file"}
SubDirs == {"sp1", "sp2"}

WriteRecs == {[dir |-> "sp1", name |-> NameA, dur |-> d] : d \in Durations}

FileUniverse ==
    { [dir |-> "sp1", name |-> NameA, dur |-> 50],
      [dir |-> "sp1", name |-> NameAA, dur |-> 49],
      [dir |-> "sp2", name |-> NameA, dur |-> 49],
      [dir |-> "sp1", name |-> NameB, dur |-> 50] }

----------------------------------------------------------------------------
(* Pure helpers *)

SetMin(S) == CHOOSE x \in S : \A y \in S : x <= y

\* str.split(sep)[0]: the text before the first occurrence of sep
SplitFirst(s, sep) ==
    LET at == {i \in 1..(Len(s) - Len(sep) + 1) :
                   SubSeq(s, i, i + Len(sep) - 1) = sep}
    IN  IF at = {} THEN s ELSE SubSeq(s, 1, SetMin(at) - 1)

\* the per-recording output directory: output_path / name
OutDir(t) == <<t.dir, SplitFirst(t.name, Ogg)>>

OutDirs == {OutDir(t) : t \in WriteRecs \cup FileUniverse}

\* hop_length = sample_rate / target frame rate, rounded to an integer
cens_per_sec(sample_rate, target) == (2 * sample_rate + target) \div (2 * target)

\* data.shape[0] of the decoded audio
Samples(t) == (t.dur * SampleRate) \div 10

\* cens.shape[1]: centred framing yields 1 + samples // hop_length columns
Frames(t, sr) == 1 + (Samples(t) \div cens_per_sec(SampleRate, sr))

\* the guard with the comparison turned around
TooShortFlipped(t) == t.dur > MinDuration

\* line 57: duration < 5
TooShort(t) == t.dur < MinDuration

ValidWindow(t, sr, w) == 0 < w /\ w < Frames(t, sr)

\* a scan that lets a later equal value replace the best one
RECURSIVE ArgMinScanLast(_, _, _)
ArgMinScanLast(mp, i, best) ==
    IF i > Len(mp) THEN best
    ELSE ArgMinScanLast(mp, i + 1, IF mp[i] <= mp[best] THEN i ELSE best)

\* np.argmin over mp, scanning upwards and keeping the first minimum
RECURSIVE ArgMinScan(_, _, _)
ArgMinScan(mp, i, best) ==
    IF i > Len(mp) THEN best
    ELSE ArgMinScan(mp, i + 1, IF mp[i] < mp[best] THEN i ELSE best)

\* an argmin that returns the last index of the minimum
argminLast(mp) == ArgMinScanLast(mp, 2, 1) - 1

argmin(mp) == ArgMinScan(mp, 2, 1) - 1

\* idx = int(motif), int(pi[motif])
MotifPair(p) == LET motif == argmin(p.mp) IN <<motif, p.pi[motif + 1]>>

ProfilesOfLen(n) ==
    { [ok |-> TRUE, mp |-> m, pi |-> q] :
        m \in [1..n -> 0..MaxMpVal], q \in [1..n -> 0..(n - 1)] }

NoProfile == [ok |-> FALSE, mp |-> <<>>, pi |-> <<>>]

\* the possible results of simple_fast(cens, cens, window) for a recording
Profiles(t, sr, w) ==
    IF t.dur < MinDuration THEN {NoProfile}
    ELSE IF ValidWindow(t, sr, w) THEN ProfilesOfLen(Frames(t, sr) - w + 1)
    ELSE {NoProfile} \cup ProfilesOfLen(1)

\* the metadata dict of lines 45-55, with the motif fields given
Metadata(t, sr, w, m0, m1) ==
    [ source_name |-> <<"train_audio", t.dir, t.name>>,
      cens_sample_rate |-> sr,
      matrix_profile_window |-> w,
      sample_rate |-> SampleRate,
      duration_cens |-> Frames(t, sr),
      duration_samples |-> Samples(t),
      duration_seconds |-> t.dur,
      motif_0 |-> m0,
      motif_1 |-> m1 ]

----------------------------------------------------------------------------
(* Disk *)

Blank == [st |-> "absent", data |-> <<>>, by |-> {}]

EmptyDir == [dir |-> FALSE, files |-> [f \in OutputNames |-> Blank]]

\* (path / x).exists()
Exists(d, f) == disk[d].files[f].st # "absent"

\* lines 34-35: the directory and all three files exist
AllDataExists(t) ==
    /\ disk[OutDir(t)].dir
    /\ \A f \in RequiredFiles : Exists(OutDir(t), f)

\* the files one run of write emits, in order
Outputs(t) == IF TooShort(t) THEN ShortOutputs ELSE LongOutputs

\* the motif fields of the metadata that is written
Motif(t) == IF TooShort(t) THEN <<Null, Null>> ELSE MotifPair(prof[t])

\* the content write puts into each file
FileData(t, f) ==
    IF f = "metadata.json"
    THEN <<Metadata(t, cens_sr, mp_window, Motif(t)[1], Motif(t)[2])>>
    ELSE IF f = "mp.npy" THEN prof[t].mp ELSE prof[t].pi

\* new written at offset 0 over old: what lies beyond new stays
Overlay(old, new) == new \o SubSeq(old, Len(new) + 1, Len(old))

\* open(path, mode): "w" creates or truncates the file, "a" keeps it
Truncated(d, f, t) ==
    [disk EXCEPT ![d].files[f] =
        [st |-> "partial",
         data |-> IF WriteMode = "w" THEN <<>> ELSE @.data,
         by |-> @.by \cup {t}]]

\* the content is written (from offset 0 in mode "w", at the end in mode
\* "a") and the file closed
Flushed(d, f, t) ==
    [disk EXCEPT ![d].files[f] =
        [st |-> "complete",
         data |-> IF WriteMode = "w" THEN Overlay(@.data, FileData(t, f))
                  ELSE @.data \o FileData(t, f),
         by |-> @.by]]

\* history: the directory content when a run of write first returned
Returned(t, newdisk) ==
    [first EXCEPT ![t] = IF @ = <<>> THEN <<newdisk[OutDir(t)]>> ELSE @]

----------------------------------------------------------------------------
(* write, one action per step *)

\* lines 26-36: output_path check, then the early exit
Check(t) ==
    /\ pc[t] = "start"
    /\ IF outKind[t.dir] = "file"
       THEN /\ pc' = [pc EXCEPT ![t] = "failed"]
            /\ faulty' = faulty \cup {t}
            /\ first' = first
       ELSE IF AllDataExists(t)
       THEN /\ pc' = [pc EXCEPT ![t] = "done"]
            /\ first' = Returned(t, disk)
            /\ faulty' = faulty
       ELSE /\ pc' = [pc EXCEPT ![t] = "load"]
            /\ UNCHANGED <<first, faulty>>
    /\ UNCHANGED <<tree, tasks, cens_sr, mp_window, prof, outKind, disk, step,
                   nload, nloc, runs, batch>>

\* lines 39-55: decode the audio, compute the features, build the metadata
Load(t) ==
    /\ pc[t] = "load"
    /\ nload' = [nload EXCEPT ![t] = @ + 1]
    /\ pc' = [pc EXCEPT ![t] = "mkdir"]
    /\ UNCHANGED <<tree, tasks, cens_sr, mp_window, prof, outKind, disk, step,
                   nloc, runs, first, faulty, batch>>

\* lines 56-57: create the output directory, then branch on the duration
Mkdir(t) ==
    /\ pc[t] = "mkdir"
    /\ disk' = [disk EXCEPT ![OutDir(t)].dir = TRUE]
    /\ outKind' = [outKind EXCEPT ![t.dir] = "dir"]
    /\ pc' = [pc EXCEPT ![t] = IF TooShort(t) THEN "open" ELSE "locate"]
    /\ step' = [step EXCEPT ![t] = 1]
    /\ UNCHANGED <<tree, tasks, cens_sr, mp_window, prof, nload, nloc, runs,
                   first, faulty, batch>>

\* lines 63-65: simple_fast, argmin and the index pair
Locate(t) ==
    /\ pc[t] = "locate"
    /\ nloc' = [nloc EXCEPT ![t] = @ + 1]
    /\ pc' = [pc EXCEPT ![t] = IF prof[t].ok THEN "open" ELSE "failed"]
    /\ faulty' = IF prof[t].ok THEN faulty ELSE faulty \cup {t}
    /\ UNCHANGED <<tree, tasks, cens_sr, mp_window, prof, outKind, disk, step,
                   nload, runs, first, batch>>

\* write_text / np.save, first half: the file is opened
Open(t) ==
    /\ pc[t] = "open"
    /\ disk' = Truncated(OutDir(t), Outputs(t)[step[t]], t)
    /\ pc' = [pc EXCEPT ![t] = "flush"]
    /\ UNCHANGED <<tree, tasks, cens_sr, mp_window, prof, outKind, step,
                   nload, nloc, runs, first, faulty, batch>>

\* write_text / np.save, second half: the content is on disk
Flush(t) ==
    /\ pc[t] = "flush"
    /\ disk' = Flushed(OutDir(t), Outputs(t)[step[t]], t)
    /\ step' = [step EXCEPT ![t] = @ + 1]
    /\ pc' = [pc EXCEPT ![t] =
                IF step[t] = Len(Outputs(t)) THEN "done" ELSE "open"]
    /\ first' = IF step[t] = Len(Outputs(t)) THEN Returned(t, disk') ELSE first
    /\ UNCHANGED <<tree, tasks, cens_sr, mp_window, prof, outKind, nload, nloc,
                   runs, faulty, batch>>

Running(t) == pc[t] \in {"start", "load", "mkdir", "locate", "open", "flush"}

\* the process running write is interrupted (killed, I/O error, disk full)
Crash(t) ==
    /\ Running(t)
    /\ pc' = [pc EXCEPT ![t] = "crashed"]
    /\ faulty' = faulty \cup {t}
    /\ UNCHANGED <<tree, tasks, cens_sr, mp_window, prof, outKind, disk, step,
                   nload, nloc, runs, first, batch>>

\* write(input_path, output_path, cens_sr, mp_window) is invoked
Call(t) ==
    /\ batch = "none"
    /\ pc[t] \in {"idle", "done", "failed", "crashed"}
    /\ runs[t] < MaxRuns
    /\ runs' = [runs EXCEPT ![t] = @ + 1]
    /\ pc' = [pc EXCEPT ![t] = "start"]
    /\ step' = [step EXCEPT ![t] = 0]
    /\ UNCHANGED <<tree, tasks, cens_sr, mp_window, prof, outKind, disk,
                   nload, nloc, first, faulty, batch>>

----------------------------------------------------------------------------
(* write on one recording, run repeatedly, with interruptions *)

Init ==
    /\ tree = {}
    /\ \E r \in WriteRecs : tasks = {r}
    /\ cens_sr \in CensSrs
    /\ mp_window \in Windows
    /\ prof \in [tasks -> UNION {Profiles(t, cens_sr, mp_window) : t \in tasks}]
    /\ \E k \in OutKinds :
          outKind = [d \in SubDirs |->
                       IF \E t \in tasks : t.dir = d THEN k ELSE "absent"]
    /\ disk = [d \in OutDirs |-> EmptyDir]
    /\ pc = [t \in tasks |-> "idle"]
    /\ step = [t \in tasks |-> 0]
    /\ nload = [t \in tasks |-> 0]
    /\ nloc = [t \in tasks |-> 0]
    /\ runs = [t \in tasks |-> 0]
    /\ first = [t \in tasks |-> <<>>]
    /\ faulty = {}
    /\ batch = "none"

Next ==
    \/ \E t \in tasks : Call(t)
    \/ \E t \in tasks : Check(t)
    \/ \E t \in tasks : Load(t)
    \/ \E t \in tasks : Mkdir(t)
    \/ \E t \in tasks : Locate(t)
    \/ \E t \in tasks : Open(t)
    \/ \E t \in tasks : Flush(t)
    \/ \E t \in tasks : Crash(t)

Spec == Init /\ [][Next]_vars

----------------------------------------------------------------------------
(* extract: the task list and the pool fan-out, lines 96-106 *)

\* lines 96-103: glob the tree, fail when it is empty, else build the
\* argument list [path, dst / rel_dir, 10, 50] and open the pool
ExtractStart ==
    /\ batch = "init"
    /\ IF tree = {}
       THEN /\ batch' = "raised"
            /\ UNCHANGED <<tasks, prof, pc, step, nload, nloc, runs, first>>
       ELSE /\ batch' = "running"
            /\ tasks' = tree
            /\ prof' \in [tree -> UNION {Profiles(t, cens_sr, mp_window) : t \in tree}]
            /\ \A t \in tree : prof'[t] \in Profiles(t, cens_sr, mp_window)
            /\ pc' = [t \in tree |-> "queued"]
            /\ step' = [t \in tree |-> 0]
            /\ nload' = [t \in tree |-> 0]
            /\ nloc' = [t \in tree |-> 0]
            /\ runs' = [t \in tree |-> 0]
            /\ first' = [t \in tree |-> <<>>]
    /\ UNCHANGED <<tree, cens_sr, mp_window, outKind, disk, faulty>>

\* a free worker of Pool(12) takes the next task (chunksize=1)
Dispatch(t) ==
    /\ batch = "running"
    /\ pc[t] = "queued"
    /\ Cardinality({u \in tasks : Running(u)}) < PoolSize
    /\ pc' = [pc EXCEPT ![t] = "start"]
    /\ runs' = [runs EXCEPT ![t] = @ + 1]
    /\ UNCHANGED <<tree, tasks, cens_sr, mp_window, prof, outKind, disk, step,
                   nload, nloc, first, faulty, batch>>

Terminal(t) == pc[t] \in {"done", "failed", "crashed"}

\* the write of one task fails while it runs
TaskFault(t) ==
    /\ batch = "running"
    /\ faulty = {}
    /\ Crash(t)

\* starmap returns once every task has a result, re-raising a task's error
PoolJoin ==
    /\ batch = "running"
    /\ \A t \in tasks : Terminal(t)
    /\ batch' = IF faulty = {} THEN "returned" ELSE "raised"
    /\ UNCHANGED <<tree, tasks, cens_sr, mp_window, prof, outKind, disk, pc,
                   step, nload, nloc, runs, first, faulty>>

InitExtract ==
    /\ tree \in {S \in SUBSET FileUniverse : Cardinality(S) <= MaxFiles}
    /\ tasks = {}
    /\ cens_sr = DefaultCensSr
    /\ mp_window = DefaultWindow
    /\ prof = <<>>
    /\ outKind \in [SubDirs -> OutKinds]
    /\ disk = [d \in OutDirs |-> EmptyDir]
    /\ pc = <<>>
    /\ step = <<>>
    /\ nload = <<>>
    /\ nloc = <<>>
    /\ runs = <<>>
    /\ first = <<>>
    /\ faulty = {}
    /\ batch = "init"

NextExtract ==
    \/ ExtractStart
    \/ \E t \in tasks : Dispatch(t)
    \/ \E t \in tasks : Check(t)
    \/ \E t \in tasks : Load(t)
    \/ \E t \in tasks : Mkdir(t)
    \/ \E t \in tasks : Locate(t)
    \/ \E t \in tasks : Open(t)
    \/ \E t \in tasks : Flush(t)
    \/ \E t \in tasks : TaskFault(t)
    \/ PoolJoin

SpecExtract == InitExtract /\ [][NextExtract]_vars

----------------------------------------------------------------------------
(* Claims *)

File(t, f) == disk[OutDir(t)].files[f]

Meta(t) == File(t, "metadata.json").data[1]

IsComplete(t, f) == File(t, f).st = "complete"

IsAbsent(t, f) == File(t, f).st = "absent"

\* i is the smallest 0-based index at which mp attains its minimum
IsFirstMin(mp, i) ==
    /\ i \in 0..(Len(mp) - 1)
    /\ \A j \in 0..(Len(mp) - 1) :
          /\ mp[i + 1] <= mp[j + 1]
          /\ (mp[j + 1] = mp[i + 1] => i <= j)

\* the complete output set of a recording: metadata.json, and the arrays
\* when it lasts at least 5 s
OutputSetComplete(t) ==
    /\ IsComplete(t, "metadata.json")
    /\ (t.dur >= 50 => IsComplete(t, "mp.npy") /\ IsComplete(t, "pi.npy"))

\* C1: a recording shorter than 5 s never reaches the locator, never gets
\* mp.npy or pi.npy, and its metadata.json carries motif_0 = motif_1 = null;
\* a recording of at least 5 s with a valid window whose write has returned
\* has mp.npy and pi.npy on disk and non-null integer motif fields.
C1_ShortBranch ==
    \A t \in tasks :
        /\ t.dur < 50 =>
              /\ nloc[t] = 0
              /\ IsAbsent(t, "mp.npy") /\ IsAbsent(t, "pi.npy")
              /\ (pc[t] = "done" => IsComplete(t, "metadata.json"))
              /\ (IsComplete(t, "metadata.json") =>
                     Meta(t).motif_0 = Null /\ Meta(t).motif_1 = Null)
        /\ (t.dur >= 50 /\ ValidWindow(t, cens_sr, mp_window) /\ pc[t] = "done") =>
              /\ ~IsAbsent(t, "mp.npy") /\ ~IsAbsent(t, "pi.npy")
              /\ IsComplete(t, "metadata.json")
              /\ Meta(t).motif_0 \in Nat /\ Meta(t).motif_1 \in Nat

\* a 4.9 s recording whose write has run to its end
C1_Witness ==
    \E t \in tasks :
        /\ t.dur = 49 /\ pc[t] = "done" /\ nload[t] >= 1
        /\ IsComplete(t, "metadata.json") /\ Meta(t).motif_0 = Null

\* C2: once write has returned and the complete output set is on disk, a
\* later run never gets past the existence check to re-read the audio.
C2_ResumeSkip ==
    \A t \in tasks :
        (first[t] # <<>> /\ OutputSetComplete(t)) => pc[t] # "load"

\* C3: a run that takes the early exit (returns without writing) found no
\* missing and no partially written output file.
C3_CrashRecovery ==
    \A t \in tasks :
        (pc[t] = "done" /\ step[t] = 0) =>
            \A f \in RequiredFiles : IsComplete(t, f)

\* C4: when write has computed a motif and returned, the persisted motif_0
\* is the first index of the minimum of the saved mp and motif_1 is the
\* saved pi at that index.
C4_MotifReduction ==
    \A t \in tasks :
        (t.dur >= 50 /\ pc[t] = "done" /\ step[t] = 4) =>
            /\ \A f \in RequiredFiles : IsComplete(t, f)
            /\ IsFirstMin(File(t, "mp.npy").data, Meta(t).motif_0)
            /\ Meta(t).motif_1 = File(t, "pi.npy").data[Meta(t).motif_0 + 1]

\* a computed motif on a profile whose minimum is attained twice
C4_Witness ==
    \E t \in tasks :
        /\ t.dur >= 50 /\ pc[t] = "done" /\ step[t] = 4
        /\ Len(File(t, "mp.npy").data) >= 2
        /\ File(t, "mp.npy").data[1] = File(t, "mp.npy").data[2]
        /\ Meta(t).motif_0 = 0

\* C5: with window >= frames or window <= 0 the write never returns
\* normally, the locator is never entered, and nothing is created on disk.
C5_WindowValidation ==
    \A t \in tasks :
        (mp_window >= Frames(t, cens_sr) \/ mp_window <= 0) =>
            /\ pc[t] # "done"
            /\ nloc[t] = 0
            /\ ~disk[OutDir(t)].dir
            /\ \A f \in OutputNames : IsAbsent(t, f)

\* C6: the locator is invoked only when window < frames, and with
\* frames <= window the persisted motif pair is null.
C6_LocatorPrecondition ==
    \A t \in tasks :
        /\ nloc[t] > 0 => mp_window < Frames(t, cens_sr)
        /\ (Frames(t, cens_sr) <= mp_window /\ IsComplete(t, "metadata.json")) =>
              Meta(t).motif_0 = Null /\ Meta(t).motif_1 = Null

\* what a failure-free batch can leave in file f of the directory of t
FailureFree(t, f) ==
    {FileData(u, f) : u \in {v \in tasks : OutDir(v) = OutDir(t)}}

\* C7: when one task of the batch has failed and every task has ended,
\* every other task has returned and its output directory holds its
\* outputs, complete, and no partially written file.
C7_FaultIsolation ==
    (batch = "running" /\ Cardinality(faulty) = 1 /\ \A t \in tasks : Terminal(t)) =>
        \A t \in tasks \ faulty :
            /\ pc[t] = "done"
            /\ \A i \in 1..Len(Outputs(t)) : IsComplete(t, Outputs(t)[i])
            /\ \A f \in OutputNames :
                  \/ IsAbsent(t, f)
                  \/ IsComplete(t, f) /\ File(t, f).data \in FailureFree(t, f)

\* C8: whenever a run of write has returned, the output directory holds
\* exactly what it held when the first run returned.
C8_Idempotent ==
    \A t \in tasks :
        (pc[t] = "done" /\ first[t] # <<>>) => disk[OutDir(t)] = first[t][1]

\* a second run that recomputed and rewrote, and has returned
C8_Witness ==
    \E t \in tasks :
        /\ pc[t] = "done" /\ runs[t] >= 2 /\ nload[t] >= 2 /\ step[t] >= 2
        /\ first[t] # <<>>

\* C9: the tasks of the batch have pairwise distinct output directories and
\* no output file is ever written by two recordings.
C9_DistinctDirs ==
    batch = "running" =>
        /\ \A t, u \in tasks : t # u => OutDir(t) # OutDir(u)
        /\ \A d \in OutDirs : \A f \in OutputNames :
              Cardinality(disk[d].files[f].by) <= 1

\* C10: pi.npy exists only if mp.npy exists, and mp.npy only if
\* metadata.json exists.
C10_WriteOrder ==
    \A d \in OutDirs :
        /\ Exists(d, "pi.npy") => Exists(d, "mp.npy")
        /\ Exists(d, "mp.npy") => Exists(d, "metadata.json")

\* a run interrupted between mp.npy and pi.npy, after an earlier interruption
C10_Witness ==
    \E t \in tasks :
        /\ pc[t] = "crashed" /\ runs[t] >= 2
        /\ ~IsAbsent(t, "mp.npy") /\ IsAbsent(t, "pi.npy")

====
